---- MODULE Spec2Model ----
(***************************************************************************)
(* Model of synthetix-cli: the interactive contract-call driver            *)
(* (src/commands/interactive-ui.js) and the status reporter                *)
(* (src/commands/status.js).                                               *)
(*                                                                         *)
(* Strings are sequences of one-character strings, so that toLowerCase,    *)
(* includes, split and the edit distance are computed, not assumed.        *)
(***************************************************************************)
EXTENDS Integers, Sequences, FiniteSets, TLC

(***************************************************************************)
(* Bounds of the model.                                                    *)
(***************************************************************************)
MaxTargets == 2      \* known contract names in the deployment file
MaxQueryLen == 2     \* characters the user types into a search prompt
MaxRawLen == 2       \* characters the user types into an input prompt
MaxDepth == 4        \* nested calls of pickContract / pickFunction
MaxAbiLen == 3       \* entries of an ABI handed to the function search
MaxBlock == 2        \* block numbers given to the status command
MaxAddresses == 2    \* addresses given to the status command
MaxCurrencies == 2   \* currency keys returned by Issuer.availableCurrencyKeys

(***************************************************************************)
(* Strings.                                                                *)
(***************************************************************************)
UpperChars == <<"A","B","C","D","E","F","G","H","I","J","K","L","M",
                "N","O","P","Q","R","S","T","U","V","W","X","Y","Z">>
LowerChars == <<"a","b","c","d","e","f","g","h","i","j","k","l","m",
                "n","o","p","q","r","s","t","u","v","w","x","y","z">>

toLowerCase(s) ==
    [i \in 1..Len(s) |->
        IF \E k \in DOMAIN UpperChars : UpperChars[k] = s[i]
        THEN LowerChars[CHOOSE k \in DOMAIN UpperChars : UpperChars[k] = s[i]]
        ELSE s[i]]

\* String.prototype.includes: sub occurs in s as a contiguous substring.
includes(s, sub) ==
    \E i \in 0..(Len(s) - Len(sub)) : SubSeq(s, i + 1, i + Len(sub)) = sub

\* String.prototype.split(sep) for a one-character separator.
RECURSIVE split(_, _)
split(s, sep) ==
    IF \A i \in DOMAIN s : s[i] # sep
    THEN <<s>>
    ELSE LET k == CHOOSE i \in DOMAIN s :
                      s[i] = sep /\ \A j \in 1..(i - 1) : s[j] # sep
         IN  <<SubSeq(s, 1, k - 1)>> \o split(SubSeq(s, k + 1, Len(s)), sep)

\* Array.prototype.join(sep).
RECURSIVE join(_, _)
join(parts, sep) ==
    IF parts = <<>> THEN <<>>
    ELSE IF Len(parts) = 1 THEN parts[1]
    ELSE parts[1] \o sep \o join(Tail(parts), sep)

Min2(a, b) == IF a <= b THEN a ELSE b

\* js-levenshtein: the edit distance (insert, delete, substitute), case-sensitive.
RECURSIVE levenshtein(_, _)
levenshtein(a, b) ==
    IF a = <<>> THEN Len(b)
    ELSE IF b = <<>> THEN Len(a)
    ELSE Min2(Min2(levenshtein(Tail(a), b) + 1, levenshtein(a, Tail(b)) + 1),
              levenshtein(Tail(a), Tail(b)) + (IF Head(a) = Head(b) THEN 0 ELSE 1))

\* All strings over chars of length at most n.
StringsUpTo(chars, n) == UNION {[1..k -> chars] : k \in 0..n}

\* Array.prototype.indexOf, 0-based, -1 when absent.
indexOf(arr, item) ==
    IF \E i \in DOMAIN arr : arr[i] = item
    THEN (CHOOSE i \in DOMAIN arr : arr[i] = item /\ \A j \in 1..(i - 1) : arr[j] # item) - 1
    ELSE -1

\* Array.prototype.filter with the predicate given as the set of kept positions.
RECURSIVE filterAt(_, _, _)
filterAt(arr, keep, i) ==
    IF i > Len(arr) THEN <<>>
    ELSE (IF i \in keep THEN <<arr[i]>> ELSE <<>>) \o filterAt(arr, keep, i + 1)

Range(s) == {s[i] : i \in DOMAIN s}

(***************************************************************************)
(* Contract Navigator: pickContract, lines 145-194.                        *)
(***************************************************************************)
Synthetix == <<"S","y","n","t","h","e","t","i","x">>
FeePool == <<"F","e","e","P","o","o","l">>
Issuer == <<"I","s","s","u","e","r">>
ContractPool == {Synthetix, FeePool, Issuer}

\* Object.keys(deploymentData.targets): distinct names in file order.
KeyLists ==
    {ks \in UNION {[1..k -> ContractPool] : k \in 0..MaxTargets} :
        \A i, j \in DOMAIN ks : i # j => ks[i] # ks[j]}

\* Array.prototype.splice(start, 1): a negative start counts from the end.
splice1(arr, start) ==
    LET from == IF start < 0
                THEN (IF Len(arr) + start < 0 THEN 0 ELSE Len(arr) + start)
                ELSE Min2(start, Len(arr))
    IN  SubSeq(arr, 1, from) \o SubSeq(arr, from + 2, Len(arr))

\* The item moved to the end of the array (push) instead of the front.
prioritizeTargetLast(arr, itemName) ==
    splice1(arr, indexOf(arr, itemName)) \o <<itemName>>

\* targets.splice(targets.indexOf(itemName), 1); targets.unshift(itemName)
prioritizeTarget(arr, itemName) ==
    <<itemName>> \o splice1(arr, indexOf(arr, itemName))

\* targets.filter(target => target.toLowerCase().includes(query.toLowerCase()))
searchTargets(arr, q) ==
    filterAt(arr,
             {i \in DOMAIN arr : includes(toLowerCase(arr[i]), toLowerCase(q))},
             1)

(***************************************************************************)
(* ABI descriptors (source.abi, returned by getSource).                     *)
(***************************************************************************)
tUint == <<"u","i","n","t">>
tAddress == <<"a","d","d","r","e","s","s">>
tBytes32 == <<"b","y","t","e","s","3","2">>
tBytes32Array == tBytes32 \o <<"[","]">>
tUintNested == tUint \o <<"[","]","[","2","]">>

Param(name, type) == [name |-> name, type |-> type]
Fn(name, inputs, outputs, mutability) ==
    [type |-> "function", name |-> name, inputs |-> inputs,
     outputs |-> outputs, stateMutability |-> mutability]
\* An event or a constructor: no outputs, no stateMutability ("undefined").
Other(type, name, inputs) ==
    [type |-> type, name |-> name, inputs |-> inputs,
     outputs |-> <<>>, stateMutability |-> "undefined"]

\* No two entries share a name.
SynthetixAbi ==
    << Other("constructor", <<>>, <<Param(<<"o">>, tAddress)>>),
       Fn(<<"a","b">>, <<>>,
          <<Param(<<"r","a","t","e">>, tUint), Param(<<"t","i","m","e">>, tUint)>>,
          "view"),
       Fn(<<"a","B">>, <<Param(<<"k">>, tBytes32Array)>>, <<>>, "nonpayable"),
       Fn(<<"b">>, <<>>, <<>>, "view"),
       Fn(<<"a">>, <<Param(<<"x">>, tBytes32), Param(<<>>, tUintNested)>>,
          <<Param(<<"r">>, tUint)>>, "view"),
       Other("event", <<"B">>, <<Param(<<"x">>, tUint)>>) >>

\* An event sharing a function's name, and an overloaded function.
FeePoolAbi ==
    << Other("event", <<"a">>, <<>>),
       Fn(<<"a">>, <<Param(<<"x">>, tUint)>>, <<>>, "nonpayable"),
       Fn(<<"A">>, <<>>, <<Param(<<"r">>, tUint)>>, "view"),
       Fn(<<"b">>, <<Param(<<"x">>, tUint)>>, <<>>, "nonpayable"),
       Fn(<<"b">>, <<Param(<<"x">>, tUint), Param(<<"y">>, tUint)>>, <<>>,
          "nonpayable") >>

IssuerAbi ==
    << Fn(<<"a">>, <<Param(<<"k">>, tBytes32)>>, <<>>, "nonpayable") >>

\* getSource(...).abi for a resolved contract name.
AbiOf(name) ==
    CASE name = Synthetix -> SynthetixAbi
      [] name = FeePool -> FeePoolAbi
      [] OTHER -> IssuerAbi

\* The ABIs the function search is checked on: every sequence of at most
\* MaxAbiLen entries, each a function of one of SearchNames (names that differ
\* in letter case and length; the empty name is an unnamed entry) or an event.
NameChars == {"a", "A"}
SearchNames == {<<>>, <<"a">>, <<"A">>, <<"a", "A">>, <<"A", "a">>, <<"a", "a">>}
SearchEntries ==
    {Fn(n, <<>>, <<>>, "nonpayable") : n \in SearchNames}
        \cup {Other("event", <<"a">>, <<>>)}
SearchAbis == UNION {[1..k -> SearchEntries] : k \in 0..MaxAbiLen}

(***************************************************************************)
(* Function Selector: pickFunction, lines 200-263.                         *)
(***************************************************************************)
combineNameAndType(items) ==
    [i \in 1..Len(items) |->
        IF items[i].name # <<>>
        THEN items[i].type \o <<" ">> \o items[i].name
        ELSE items[i].type]

reduceSignature(item) ==
    LET ins == combineNameAndType(item.inputs)
        inputPart == item.name \o <<"(">> \o join(ins, <<",", " ">>) \o <<")">>
        outs == combineNameAndType(item.outputs)
        outputPart0 == IF Len(outs) > 0
                       THEN <<" ","r","e","t","u","r","n","s","(">>
                                \o join(outs, <<",", " ">>) \o <<")">>
                       ELSE <<>>
        outputPart == IF item.stateMutability = "view"
                      THEN <<" ","v","i","e","w">> \o outputPart0
                      ELSE outputPart0
    IN  inputPart \o outputPart

\* The BACK entry; "<-" stands for its leading arrow glyph.
escItem == <<"<-", " ", "B", "A", "C", "K">>

\* source.abi.filter(...): the positions of the named function entries whose
\* lower-cased name includes the lower-cased query, in ABI order.
abiFilter(abi, q) ==
    filterAt([i \in 1..Len(abi) |-> i],
             {i \in DOMAIN abi :
                 /\ abi[i].name # <<>>
                 /\ abi[i].type = "function"
                 /\ includes(toLowerCase(abi[i].name), toLowerCase(q))},
             1)

\* A sort that is not stable: an entry goes before the entries of equal distance.
RECURSIVE sortUnstable(_, _, _)
sortUnstable(idxs, abi, q) ==
    IF idxs = <<>> THEN <<>>
    ELSE LET n == Len(idxs)
             init == sortUnstable(SubSeq(idxs, 1, n - 1), abi, q)
             d(i) == levenshtein(abi[i].name, q)
             k == Cardinality({j \in DOMAIN init : d(init[j]) < d(idxs[n])})
         IN  SubSeq(init, 1, k) \o <<idxs[n]>> \o SubSeq(init, k + 1, Len(init))

\* abiMatches.sort((a, b) => levenshtein(a.name, query) - levenshtein(b.name, query)):
\* Array.prototype.sort is stable, so an entry goes after every entry already
\* placed whose distance is not larger.
RECURSIVE sortStable(_, _, _)
sortStable(idxs, abi, q) ==
    IF idxs = <<>> THEN <<>>
    ELSE LET n == Len(idxs)
             init == sortStable(SubSeq(idxs, 1, n - 1), abi, q)
             d(i) == levenshtein(abi[i].name, q)
             k == Cardinality({j \in DOMAIN init : d(init[j]) <= d(idxs[n])})
         IN  SubSeq(init, 1, k) \o <<idxs[n]>> \o SubSeq(init, k + 1, Len(init))

sortByProximity(idxs, abi, q) == sortStable(idxs, abi, q)

\* The sorted abiMatches, as positions of source.abi.
abiMatches(abi, q) == sortByProximity(abiFilter(abi, q), abi, q)

\* The signatures handed to the prompt: BACK first when the query is empty.
searchAbi(abi, q) ==
    LET ms == abiMatches(abi, q)
        signatures == [i \in 1..Len(ms) |-> reduceSignature(abi[ms[i]])]
    IN  IF q = <<>> THEN <<escItem>> \o signatures ELSE signatures

\* The position of source.abi behind candidate pos of the list; 0 for BACK.
entryAt(abi, q, pos) ==
    IF q = <<>>
    THEN (IF pos = 1 THEN 0 ELSE abiMatches(abi, q)[pos - 1])
    ELSE abiMatches(abi, q)[pos]

\* abiItemSignature.split('(')[0]
abiItemNameOf(signature) == split(signature, "(")[1]

\* source.abi.find(item => item.name === abiItemName): the first entry of
\* that name, whatever its type; 0 when there is none.
abiFind(abi, name) ==
    IF \E i \in DOMAIN abi : abi[i].name = name
    THEN CHOOSE i \in DOMAIN abi :
            abi[i].name = name /\ \A j \in 1..(i - 1) : abi[j].name # name
    ELSE 0

(***************************************************************************)
(* Input Coercion: pickFunction, lines 279-319.                            *)
(***************************************************************************)
\* synthetix.toBytes32: the text as bytes, right-padded with zero bytes to a
\* 32-byte word (never truncated).
toBytes32(text) ==
    [bytes |-> text, zeros |-> IF Len(text) < 32 THEN 32 - Len(text) ELSE 0]

\* lines 286-287: input.type.includes('bytes32'), input.type.includes('[]')
requiresBytes32Util(type) == includes(type, tBytes32)
isArray(type) == includes(type, <<"[", "]">>)

\* lines 301-314: split on commas if array, then toBytes32 if bytes32.
processInput(type, raw) ==
    LET processed == IF isArray(type) THEN split(raw, ",") ELSE raw
    IN  IF requiresBytes32Util(type)
        THEN (IF isArray(type)
              THEN [i \in 1..Len(processed) |-> toBytes32(processed[i])]
              ELSE toBytes32(processed))
        ELSE processed

RawABC == <<"a", ",", "b", ",", "c">>
RawInputs == StringsUpTo({"a", ","}, MaxRawLen) \cup {RawABC}

(***************************************************************************)
(* Values returned by the collaborators.                                   *)
(***************************************************************************)
BigNumber(n) == [kind |-> "BigNumber", v |-> n]
Text(n) == [kind |-> "string", v |-> n]
Values == {BigNumber(1), Text(2)}

\* A block tag: 'latest' or a block number.
Latest == [latest |-> TRUE, n |-> 0]
AtBlock(n) == [latest |-> FALSE, n |-> n]

NoResult == [kind |-> "undefined"]
Single(v) == [kind |-> "value", value |-> v]
Tuple(vs) == [kind |-> "tuple", values |-> vs]
Receipt == [kind |-> "receipt"]
NoError == "none"

\* What a successful view call may return for n declared outputs: the value
\* itself for one output, the n-tuple otherwise; for no outputs the empty
\* tuple or nothing, depending on the ethers build.
ViewResults(n) ==
    IF n = 1 THEN {Single(v) : v \in Values}
    ELSE IF n = 0 THEN {NoResult, Tuple(<<>>)}
    ELSE {Tuple(vs) : vs \in [1..n -> Values]}

\* printReturnedValue, lines 380-388.
printReturnedValue(value) ==
    IF value.kind = "BigNumber"
    THEN [kind |-> "raw (ether)", v |-> value.v]
    ELSE value

(***************************************************************************)
(* State.                                                                  *)
(***************************************************************************)
VARIABLES
    cmd,           \* which command runs: "interactive" or "status"
    keys,          \* Object.keys(deploymentData.targets)
    pc,            \* where the driver is suspended
    stack,         \* return addresses (source lines) of the pending calls
    targets,       \* pickContract's targets array
    query,         \* the text typed into the current search prompt
    contractName,  \* the contract picked
    abi,           \* source.abi of the resolved contract
    selected,      \* position in abi of the candidate the user picked
    abiItem,       \* position in abi of the entry found by name
    raws,          \* the raw answers of the input prompts
    inputs,        \* the coerced call arguments
    result,        \* the local result
    error,         \* the local error
    trace,         \* what happened since the last function was picked
    reported,      \* the last report: logError or logReceipt and its argument
    printed,       \* the output lines printed by the last report
    fatalCause,    \* what reached the top-level catch
    exitCode,      \* process.exitCode
    blockOptions,  \* status: blockOptions.blockTag
    opts,          \* status: the options, and the number of currency keys read
    reads,         \* status: the chain reads issued so far
    env,           \* process.env.PROVIDER_URL, <<>> when unset
    argv,          \* the options --network, --provider-url and --use-fork
    providerUrl    \* the providerUrl handed to setupProvider, <<>> when none

vars == <<cmd, keys, pc, stack, targets, query, contractName, abi, selected,
          abiItem, raws, inputs, result, error, trace, reported, printed,
          fatalCause, exitCode, blockOptions, opts, reads, env, argv,
          providerUrl>>

statusVars == <<blockOptions, opts, reads>>

Queries == StringsUpTo({"a", "S"}, MaxQueryLen)

\* The text "network", "infura" and the local fork's URL of the provider setup.
wNetwork == <<"n","e","t","w","o","r","k">>
wInfura == <<"i","n","f","u","r","a">>
wLocalhost == <<"h","t","t","p",":","/","/","l","o","c","a","l","h","o","s","t",
                ":","8","5","4","5">>
\* -n, --network <value>, lower-cased; 'mainnet' by default.
mainnet == <<"m","a","i","n","n","e","t">>
kovan == <<"k","o","v","a","n">>
Networks == {mainnet, kovan, toLowerCase(<<"R","o","p","s","t","e","n">>)}

\* A run with no --provider-url, no --use-fork and no PROVIDER_URL: the
\* provider is the library's default one.
NoProviderOptions ==
    /\ env = <<>>
    /\ argv = [network |-> mainnet, providerUrl |-> <<>>, useFork |-> FALSE]
    /\ providerUrl = <<>>
NoReport == [via |-> "none", error |-> NoError, result |-> NoResult]

(***************************************************************************)
(* The interactive driver: interactiveUi, lines 145-441.  One action per   *)
(* resumption of the async code: a prompt answered or a collaborator's     *)
(* promise settled, up to the next await.                                  *)
(***************************************************************************)
\* A fresh pickFunction (or pickContract) frame: no selection, nothing run.
FreshLocals ==
    /\ selected' = 0
    /\ abiItem' = 0
    /\ raws' = <<>>
    /\ inputs' = <<>>
    /\ result' = NoResult
    /\ error' = NoError

\* Nothing reported since the prompt was entered.
NothingReported ==
    /\ reported' = NoReport
    /\ printed' = <<>>

\* An error nothing catches below program.action: lines 435-440.
Fatal(cause) ==
    /\ pc' = "fatal"
    /\ stack' = <<>>
    /\ fatalCause' = cause
    /\ exitCode' = 1

\* The autocomplete prompt calls its source again with the text typed so far.
TypeContractQuery(q) ==
    /\ cmd = "interactive"
    /\ pc = "pickContract"
    /\ q # query
    /\ query' = q
    /\ UNCHANGED <<env, argv, providerUrl, cmd, keys, pc, stack, targets, contractName, abi, selected,
                   abiItem, raws, inputs, result, error, trace, reported,
                   printed, fatalCause, exitCode, statusVars>>

\* lines 167-174: the user picks one of the names presented.
ChooseContract ==
    /\ cmd = "interactive"
    /\ pc = "pickContract"
    /\ LET presented == searchTargets(targets, query)
       IN  \E pos \in DOMAIN presented : contractName' = presented[pos]
    /\ pc' = "resolve"
    /\ query' = <<>>
    /\ UNCHANGED <<env, argv, providerUrl, cmd, keys, stack, targets, abi, selected, abiItem, raws,
                   inputs, result, error, trace, reported, printed,
                   fatalCause, exitCode, statusVars>>

\* lines 176-194 and 415: getTarget and getSource resolve the name; the first
\* pickFunction is called.
ResolveOk ==
    /\ cmd = "interactive"
    /\ pc = "resolve"
    /\ contractName \in Range(keys)
    /\ Len(stack) < MaxDepth
    /\ abi' = AbiOf(contractName)
    /\ stack' = Append(stack, 415)
    /\ pc' = "pickFunction"
    /\ query' = <<>>
    /\ trace' = <<>>
    /\ FreshLocals
    /\ NothingReported
    /\ UNCHANGED <<env, argv, providerUrl, cmd, keys, targets, contractName, fatalCause, exitCode,
                   statusVars>>

\* lines 176-187: getTarget returns undefined for a name that is no key of the
\* deployment (target.source then throws), or getSource finds no source.
\* Nothing catches it before program.action.
ResolveFails ==
    /\ cmd = "interactive"
    /\ pc = "resolve"
    /\ Fatal("resolution")
    /\ UNCHANGED <<env, argv, providerUrl, cmd, keys, targets, query, contractName, abi, selected,
                   abiItem, raws, inputs, result, error, trace, reported,
                   printed, statusVars>>

TypeFunctionQuery(q) ==
    /\ cmd = "interactive"
    /\ pc = "pickFunction"
    /\ q # query
    /\ query' = q
    /\ UNCHANGED <<env, argv, providerUrl, cmd, keys, pc, stack, targets, contractName, abi, selected,
                   abiItem, raws, inputs, result, error, trace, reported,
                   printed, fatalCause, exitCode, statusVars>>

\* lines 325-360 up to the next await, once every input prompt has resolved:
\* a view function is queried, any other entry asks for confirmation.
AfterInputs(item, tr) ==
    IF abi[item].stateMutability = "view"
    THEN /\ pc' = "query"
         /\ trace' = Append(tr, "query")
    ELSE /\ pc' = "confirm"
         /\ trace' = tr

\* lines 263-293: the user picks a candidate.  BACK calls pickContract (whose
\* first lines rebuild targets); any other signature is cut at its first "("
\* and the entry of that name is looked up.
ChooseFunction ==
    /\ cmd = "interactive"
    /\ pc = "pickFunction"
    /\ query' = <<>>
    /\ NothingReported
    /\ LET signatures == searchAbi(abi, query)
       IN  \E pos \in DOMAIN signatures :
             IF signatures[pos] = escItem
             THEN /\ Len(stack) < MaxDepth
                  /\ stack' = Append(stack, 268)
                  /\ targets' = prioritizeTarget(keys, Synthetix)
                  /\ pc' = "pickContract"
                  /\ trace' = <<"back">>
                  /\ FreshLocals
             ELSE LET item == abiFind(abi, abiItemNameOf(signatures[pos]))
                  IN  /\ selected' = entryAt(abi, query, pos)
                      /\ abiItem' = item
                      /\ raws' = <<>>
                      /\ inputs' = <<>>
                      /\ result' = NoResult
                      /\ error' = NoError
                      /\ IF Len(abi[item].inputs) > 0
                         THEN pc' = "input" /\ trace' = <<"select">>
                         ELSE AfterInputs(item, <<"select">>)
                      /\ UNCHANGED <<stack, targets>>
    /\ UNCHANGED <<env, argv, providerUrl, cmd, keys, contractName, abi, fatalCause, exitCode,
                   statusVars>>

\* lines 281-318: one input prompt resolves and its answer is coerced.
AnswerInput(raw) ==
    /\ cmd = "interactive"
    /\ pc = "input"
    /\ LET ins == abi[abiItem].inputs
           k == Len(inputs) + 1
       IN  /\ raws' = Append(raws, raw)
           /\ inputs' = Append(inputs, processInput(ins[k].type, raw))
           /\ IF k = Len(ins)
              THEN AfterInputs(abiItem, Append(trace, "input"))
              ELSE pc' = "input" /\ trace' = Append(trace, "input")
    /\ UNCHANGED <<env, argv, providerUrl, cmd, keys, stack, targets, query, contractName, abi,
                   selected, abiItem, result, error, reported, printed,
                   fatalCause, exitCode, statusVars>>

\* The output lines of lines 397-407 for a view result.
outputLines(outputs, res) ==
    IF Len(outputs) > 1
    THEN [i \in 1..Len(outputs) |->
            [name |-> outputs[i].name, type |-> outputs[i].type,
             value |-> printReturnedValue(res.values[i])]]
    ELSE << [name |-> outputs[1].name, type |-> outputs[1].type,
             value |-> printReturnedValue(res.value)] >>

\* lines 390-411: report the outcome and call pickFunction again.  With no
\* declared output, outputs[0] is undefined and reading its name throws.
Report(res, err, tr) ==
    /\ FreshLocals
    /\ IF err # NoError
       THEN /\ reported' = [via |-> "logError", error |-> err, result |-> NoResult]
            /\ printed' = <<>>
            /\ trace' = Append(tr, "logError")
            /\ Len(stack) < MaxDepth
            /\ stack' = Append(stack, 411)
            /\ pc' = "pickFunction"
            /\ UNCHANGED <<fatalCause, exitCode>>
       ELSE /\ reported' = [via |-> "logReceipt", error |-> NoError, result |-> res]
            /\ trace' = Append(tr, "logReceipt")
            /\ IF /\ abi[abiItem].stateMutability = "view"
                  /\ res.kind # "undefined"
                  /\ Len(abi[abiItem].outputs) = 0
               THEN /\ printed' = <<>>
                    /\ Fatal("TypeError")
               ELSE /\ printed' =
                         IF /\ abi[abiItem].stateMutability = "view"
                            /\ res.kind # "undefined"
                         THEN outputLines(abi[abiItem].outputs, res)
                         ELSE <<>>
                    /\ Len(stack) < MaxDepth
                    /\ stack' = Append(stack, 411)
                    /\ pc' = "pickFunction"
                    /\ UNCHANGED <<fatalCause, exitCode>>

ViewOutcomes(n) ==
    {[error |-> NoError, result |-> r] : r \in ViewResults(n)}
        \cup {[error |-> "callError", result |-> NoResult]}

\* lines 335-339 and 390-411: the view call settles; a rejection is caught.
ViewReturns ==
    /\ cmd = "interactive"
    /\ pc = "query"
    /\ \E outcome \in ViewOutcomes(Len(abi[abiItem].outputs)) :
            Report(outcome.result, outcome.error,
                   Append(trace, IF outcome.error = NoError THEN "returned" ELSE "threw"))
    /\ UNCHANGED <<env, argv, providerUrl, cmd, keys, targets, query, contractName, abi, statusVars>>

\* lines 341-360: the confirmation prompt resolves.  Declined: pickFunction is
\* called again.  Confirmed: the contract method is called with the inputs
\* and the overrides and its promise handed to stageTx.
Confirm(confirmation) ==
    /\ cmd = "interactive"
    /\ pc = "confirm"
    /\ IF confirmation
       THEN /\ pc' = "stage"
            /\ trace' = trace \o <<"confirmed", "stageTx">>
            /\ UNCHANGED <<stack, selected, abiItem, raws, inputs, result, error>>
       ELSE /\ Len(stack) < MaxDepth
            /\ stack' = Append(stack, 349)
            /\ pc' = "pickFunction"
            /\ trace' = Append(trace, "declined")
            /\ FreshLocals
    /\ UNCHANGED <<env, argv, providerUrl, cmd, keys, targets, query, contractName, abi, reported,
                   printed, fatalCause, exitCode, statusVars>>

\* line 355: ethers attaches no method under a bare name that several
\* functions of the ABI share, so contract[abiItemName] is then undefined and
\* calling it throws outside any try.
ambiguous(a, name) ==
    Cardinality({i \in DOMAIN a : a[i].type = "function" /\ a[i].name = name}) > 1

ConfirmThrows ==
    /\ cmd = "interactive"
    /\ pc = "confirm"
    /\ ambiguous(abi, abi[abiItem].name)
    /\ trace' = Append(trace, "confirmed")
    /\ Fatal("notAFunction")
    /\ UNCHANGED <<env, argv, providerUrl, cmd, keys, targets, query, contractName, abi, selected,
                   abiItem, raws, inputs, result, error, reported, printed,
                   statusVars>>

Failure == [kind |-> "failure"]
Staged == [kind |-> "tx"]

\* stageTx({txPromise, provider}) -> {success, tx | error}
stageTx == {[success |-> TRUE, error |-> NoError],
            [success |-> FALSE, error |-> "stageError"]}

\* runTx({tx, provider}) -> {success, receipt | error}: the submission or the
\* wait for the receipt may fail.
runTx == {[success |-> TRUE, error |-> NoError],
          [success |-> FALSE, error |-> "submitError"],
          [success |-> FALSE, error |-> "receiptError"]}

\* What stageTx answered, as recorded in trace.
StageEvent(staged) == IF staged.success THEN "staged" ELSE "stageFailed"

\* runTx called whatever stageTx answered.
stageThenRunAlways(staged) == "run"

\* lines 357-377 as written: runTx is called only if staging succeeded.
stageThenRun(staged) == IF staged.success THEN "run" ELSE "report"

\* lines 357-377 and 390-411: stageTx settles.
StageReturns(staged) ==
    /\ cmd = "interactive"
    /\ pc = "stage"
    /\ IF stageThenRun(staged) = "run"
       THEN /\ pc' = "run"
            /\ trace' = trace \o <<StageEvent(staged), "runTx">>
            /\ result' = Staged
            /\ UNCHANGED <<stack, selected, abiItem, raws, inputs, error,
                           reported, printed, fatalCause, exitCode>>
       ELSE Report(Failure, staged.error, Append(trace, StageEvent(staged)))
    /\ UNCHANGED <<env, argv, providerUrl, cmd, keys, targets, query, contractName, abi, statusVars>>

\* lines 365-374 and 390-411: runTx settles.
RunReturns(ran) ==
    /\ cmd = "interactive"
    /\ pc = "run"
    /\ IF ran.success
       THEN Report(Receipt, NoError, Append(trace, "receipt"))
       ELSE Report(Failure, ran.error, Append(trace, "runFailed"))
    /\ UNCHANGED <<env, argv, providerUrl, cmd, keys, targets, query, contractName, abi, statusVars>>

InitUi ==
    /\ cmd = "interactive"
    /\ keys \in KeyLists
    /\ pc = "pickContract"
    /\ stack = <<419>>
    /\ targets = prioritizeTarget(keys, Synthetix)
    /\ query = <<>>
    /\ contractName = <<>>
    /\ abi = <<>>
    /\ selected = 0
    /\ abiItem = 0
    /\ raws = <<>>
    /\ inputs = <<>>
    /\ result = NoResult
    /\ error = NoError
    /\ trace = <<>>
    /\ reported = NoReport
    /\ printed = <<>>
    /\ fatalCause = "none"
    /\ exitCode = 0
    /\ blockOptions = Latest
    /\ opts = [block |-> <<>>, useOvm |-> FALSE, addresses |-> 0, currencies |-> 0]
    /\ reads = <<>>
    /\ NoProviderOptions

NextUi ==
    \/ \E q \in Queries : TypeContractQuery(q)
    \/ ChooseContract
    \/ ResolveOk
    \/ ResolveFails
    \/ \E q \in Queries : TypeFunctionQuery(q)
    \/ ChooseFunction
    \/ \E raw \in RawInputs : AnswerInput(raw)
    \/ ViewReturns
    \/ \E confirmation \in BOOLEAN : Confirm(confirmation)
    \/ ConfirmThrows
    \/ \E staged \in stageTx : StageReturns(staged)
    \/ \E ran \in runTx : RunReturns(ran)

(***************************************************************************)
(* The status command: status, lines 12-300 of the status source.          *)
(***************************************************************************)
Digits == <<"0","1","2","3","4","5","6","7","8","9">>

\* The decimal text of a number, as given on the command line.
RECURSIVE toText(_)
toText(n) ==
    IF n < 10 THEN <<Digits[n + 1]>>
    ELSE toText(n \div 10) \o <<Digits[(n % 10) + 1]>>

\* Unary plus on a decimal text.
RECURSIVE toNumber(_)
toNumber(text) ==
    IF text = <<>> THEN 0
    ELSE toNumber(SubSeq(text, 1, Len(text) - 1)) * 10
            + (CHOOSE d \in 0..9 : Digits[d + 1] = text[Len(text)])

\* line 23: { blockTag: block ? +block : 'latest' }; an absent option and the
\* empty text are both falsy.
blockTagOf(block) == IF block # <<>> THEN AtBlock(toNumber(block)) ELSE Latest

RECURSIVE Repeat(_, _)
Repeat(seq, n) == IF n = 0 THEN <<>> ELSE seq \o Repeat(seq, n - 1)

\* One chain read: the contract, the method, and whether the call is handed
\* blockOptions as its last argument.
Read(contract, method, withBlockOptions) ==
    [contract |-> contract, method |-> method, withBlockOptions |-> withBlockOptions]

\* The reads of status in program order, for the options o.
statusReads(o) ==
    << Read("Synthetix", "anySynthOrSNXRateIsInvalid", TRUE),
       Read("Synthetix", "totalSupply", TRUE) >>
    \o Repeat(<<Read("SynthetixState", "issuanceData", TRUE)>>, o.addresses)
    \o <<Read("SupplySchedule", "mintableSupply", TRUE)>>
    \o (IF o.useOvm
        THEN << Read("SupplySchedule", "inflationStartDate", TRUE),
                Read("SupplySchedule", "lastMintEvent", TRUE),
                Read("SupplySchedule", "mintPeriodDuration", TRUE),
                Read("SupplySchedule", "mintBuffer", TRUE),
                Read("SupplySchedule", "periodsSinceLastIssuance", TRUE) >>
        ELSE <<>>)
    \o << Read("FeePool", "feePeriodDuration", TRUE),
          Read("FeePool", "recentFeePeriods", TRUE),
          Read("FeePool", "recentFeePeriods", TRUE) >>
    \o Repeat(<< Read("FeePool", "feesByPeriod", TRUE),
                 Read("FeePool", "getLastFeeWithdrawal", TRUE),
                 Read("FeePool", "effectiveDebtRatioForPeriod", TRUE) >>,
              o.addresses)
    \o Repeat(<<Read("FeePoolState", "getAccountsDebtEntry", TRUE)>>, o.addresses)
    \o <<Read("AddressResolver", "getAddress", TRUE)>>
    \o <<Read("SystemSettings", "rateStalePeriod", FALSE)>>
    \o <<Read("Issuer", "availableCurrencyKeys", FALSE)>>
    \o Repeat(<< Read("ExchangeRates", "rateForCurrency", TRUE),
                 Read("ExchangeRates", "rateIsInvalid", FALSE),
                 Read("ExchangeRates", "lastRateUpdateTimes", TRUE) >>,
              o.currencies)

\* The read is issued at blockOptions.blockTag when it is handed blockOptions,
\* and at the provider's default, 'latest', when it is not.
issue(read, tag) ==
    [contract |-> read.contract, method |-> read.method,
     blockTag |-> IF read.withBlockOptions THEN tag ELSE Latest]

\* lines 17-76: the options are read, 'Block #' is logged and the first read
\* is issued.
StatusStart ==
    /\ cmd = "status"
    /\ pc = "start"
    /\ blockOptions' = blockTagOf(opts.block)
    /\ reads' = <<issue(statusReads(opts)[1], blockTagOf(opts.block))>>
    /\ pc' = "reading"
    /\ UNCHANGED <<env, argv, providerUrl, cmd, opts, fatalCause, exitCode, keys, stack, targets, query,
                   contractName, abi, selected, abiItem, raws, inputs, result,
                   error, trace, reported, printed>>

\* The pending read resolves and the next one is issued; the read of
\* Issuer.availableCurrencyKeys returns the currency keys.
StatusRead(nKeys) ==
    /\ cmd = "status"
    /\ pc = "reading"
    /\ LET last == statusReads(opts)[Len(reads)]
           o == IF last.method = "availableCurrencyKeys"
                THEN [opts EXCEPT !.currencies = nKeys]
                ELSE opts
       IN  /\ last.method # "availableCurrencyKeys" => nKeys = 0
           /\ opts' = o
           /\ IF Len(reads) < Len(statusReads(o))
              THEN /\ reads' = Append(reads, issue(statusReads(o)[Len(reads) + 1],
                                                   blockOptions))
                   /\ pc' = "reading"
              ELSE /\ pc' = "done"
                   /\ UNCHANGED reads
    /\ UNCHANGED <<env, argv, providerUrl, cmd, blockOptions, fatalCause, exitCode, keys, stack, targets,
                   query, contractName, abi, selected, abiItem, raws, inputs,
                   result, error, trace, reported, printed>>

\* lines 308-316: the pending read rejects; program.action catches it.
StatusFails ==
    /\ cmd = "status"
    /\ pc = "reading"
    /\ Fatal("read")
    /\ UNCHANGED <<env, argv, providerUrl, cmd, blockOptions, opts, reads, keys, targets, query,
                   contractName, abi, selected, abiItem, raws, inputs, result,
                   error, trace, reported, printed>>

InitStatus ==
    /\ cmd = "status"
    /\ opts \in [block : {<<>>} \cup {toText(n) : n \in 0..MaxBlock},
                 useOvm : BOOLEAN,
                 addresses : 0..MaxAddresses,
                 currencies : {0}]
    /\ blockOptions = Latest
    /\ reads = <<>>
    /\ pc = "start"
    /\ stack = <<>>
    /\ keys = <<>>
    /\ targets = <<>>
    /\ query = <<>>
    /\ contractName = <<>>
    /\ abi = <<>>
    /\ selected = 0
    /\ abiItem = 0
    /\ raws = <<>>
    /\ inputs = <<>>
    /\ result = NoResult
    /\ error = NoError
    /\ trace = <<>>
    /\ reported = NoReport
    /\ printed = <<>>
    /\ fatalCause = "none"
    /\ exitCode = 0
    /\ NoProviderOptions

NextStatus ==
    \/ StatusStart
    \/ \E nKeys \in 0..MaxCurrencies : StatusRead(nKeys)
    \/ StatusFails

(***************************************************************************)
(* The program: one of the two commands is run.                            *)
(***************************************************************************)
Init == InitUi \/ InitStatus
Next == NextUi \/ NextStatus
Spec == Init /\ [][Next]_vars

(***************************************************************************)
(* The function search on every small ABI: the driver at the function      *)
(* prompt of a contract whose source.abi is any of SearchAbis.             *)
(***************************************************************************)
InitSearch ==
    /\ cmd = "interactive"
    /\ keys = <<Synthetix>>
    /\ pc = "pickFunction"
    /\ stack = <<419, 415>>
    /\ targets = <<Synthetix>>
    /\ query = <<>>
    /\ contractName = Synthetix
    /\ abi \in SearchAbis
    /\ selected = 0
    /\ abiItem = 0
    /\ raws = <<>>
    /\ inputs = <<>>
    /\ result = NoResult
    /\ error = NoError
    /\ trace = <<>>
    /\ reported = NoReport
    /\ printed = <<>>
    /\ fatalCause = "none"
    /\ exitCode = 0
    /\ blockOptions = Latest
    /\ opts = [block |-> <<>>, useOvm |-> FALSE, addresses |-> 0, currencies |-> 0]
    /\ reads = <<>>
    /\ NoProviderOptions

SearchQueries == StringsUpTo(NameChars, MaxQueryLen)
NextSearch == \E q \in SearchQueries : TypeFunctionQuery(q)
SpecSearch == InitSearch /\ [][NextSearch]_vars

(***************************************************************************)
(* The provider setup of both commands: status lines 19-29, interactiveUi  *)
(* lines 58-83.  The command starts with its options and the environment   *)
(* and hands a providerUrl to setupProvider.                               *)
(***************************************************************************)
\* String.prototype.replace with a text pattern: the first occurrence of pat
\* in s is replaced (the replacement texts here hold no "$").
replace(s, pat, by) ==
    LET hits == {i \in 1..(Len(s) - Len(pat) + 1) :
                    SubSeq(s, i, i + Len(pat) - 1) = pat}
    IN  IF hits = {} THEN s
        ELSE LET i == CHOOSE h \in hits : \A g \in hits : h <= g
             IN  SubSeq(s, 1, i - 1) \o by \o SubSeq(s, i + Len(pat), Len(s))

\* status lines 19-21.
statusProviderUrl(o, e) ==
    IF o.providerUrl = <<>> /\ e # <<>>
    THEN replace(e, wNetwork, o.network)
    ELSE o.providerUrl

\* interactiveUi lines 58-77: --use-fork sets the local URL first; the
\* environment's URL gets the network only when it contains 'infura'.
uiProviderUrl(o, e) ==
    LET given == IF o.useFork THEN wLocalhost ELSE o.providerUrl
    IN  IF given = <<>> /\ e # <<>>
        THEN IF includes(e, wInfura)
             THEN replace(e, wNetwork, o.network)
             ELSE e
        ELSE given

\* Values of PROVIDER_URL and of --provider-url.
EnvUrls ==
    { <<>>,
      wNetwork \o <<".">> \o wInfura,
      wNetwork \o <<".">> \o wInfura \o <<"/">> \o wNetwork,
      wInfura,
      wNetwork \o <<".">> \o <<"n","o","d","e">>,
      <<"n","o","d","e">> }
GivenUrls == { <<>>, <<"m","y",".">> \o wNetwork }

\* status line 29: setupProvider({ providerUrl }).
StatusSetupProvider ==
    /\ cmd = "status"
    /\ pc = "setup"
    /\ providerUrl' = statusProviderUrl(argv, env)
    /\ pc' = "ready"
    /\ UNCHANGED <<env, argv, cmd, keys, stack, targets, query, contractName,
                   abi, selected, abiItem, raws, inputs, result, error, trace,
                   reported, printed, fatalCause, exitCode, statusVars>>

\* interactiveUi lines 79-83: setupProvider({ providerUrl, ... }).
UiSetupProvider ==
    /\ cmd = "interactive"
    /\ pc = "setup"
    /\ providerUrl' = uiProviderUrl(argv, env)
    /\ pc' = "ready"
    /\ UNCHANGED <<env, argv, cmd, keys, stack, targets, query, contractName,
                   abi, selected, abiItem, raws, inputs, result, error, trace,
                   reported, printed, fatalCause, exitCode, statusVars>>

\* Either command is started; status has no --use-fork option.
InitProvider ==
    /\ cmd \in {"status", "interactive"}
    /\ env \in EnvUrls
    /\ argv \in [network : Networks, providerUrl : GivenUrls, useFork : BOOLEAN]
    /\ cmd = "status" => ~argv.useFork
    /\ providerUrl = <<>>
    /\ pc = "setup"
    /\ stack = <<>>
    /\ keys = <<>>
    /\ targets = <<>>
    /\ query = <<>>
    /\ contractName = <<>>
    /\ abi = <<>>
    /\ selected = 0
    /\ abiItem = 0
    /\ raws = <<>>
    /\ inputs = <<>>
    /\ result = NoResult
    /\ error = NoError
    /\ trace = <<>>
    /\ reported = NoReport
    /\ printed = <<>>
    /\ fatalCause = "none"
    /\ exitCode = 0
    /\ blockOptions = Latest
    /\ opts = [block |-> <<>>, useOvm |-> FALSE, addresses |-> 0, currencies |-> 0]
    /\ reads = <<>>

NextProvider == StatusSetupProvider \/ UiSetupProvider
SpecProvider == InitProvider /\ [][NextProvider]_vars

(***************************************************************************)
(* Properties.                                                             *)
(***************************************************************************)
InUi == cmd = "interactive"
Executing == {"input", "query", "confirm", "stage", "run"}
Occurs(event) == event \in Range(trace)
\* Some occurrence of a precedes every occurrence of b.
Precedes(a, b) ==
    \A j \in DOMAIN trace : trace[j] = b => \E i \in 1..(j - 1) : trace[i] = a

\* name contains q as a substring, letter case ignored.
ContainsIgnoringCase(name, q) ==
    \E off \in 0..(Len(name) - Len(q)) :
        \A j \in 1..Len(q) : toLowerCase(<<name[off + j]>>) = toLowerCase(<<q[j]>>)

\* C1: in the interactive session no failure of the five kinds (resolution,
\* view call, staging, submission, receipt wait) reaches the top-level fatal
\* handler, and after a reported failure the driver waits at a prompt again.
C1_NoFailureEndsTheSession ==
    InUi =>
        /\ pc = "fatal" =>
              fatalCause \notin {"resolution", "callError", "stageError",
                                 "submitError", "receiptError"}
        /\ reported.via = "logError" => pc \in {"pickFunction", "pickContract"}

\* C2: for a confirmed mutating call, stageTx is called before runTx; runTx is
\* called only after stageTx succeeded; a failed stage is reported through
\* logError with the stage's error and runTx is never called; a failed runTx
\* is reported through logError with runTx's error and no receipt is
\* reported; logReceipt is reached only with the receipt of a successful runTx.
C2_PhasesShortCircuit ==
    (InUi /\ Occurs("confirmed")) =>
        /\ Precedes("stageTx", "runTx")
        /\ Precedes("staged", "runTx")
        /\ Occurs("stageFailed") =>
              /\ ~Occurs("runTx")
              /\ ~Occurs("logReceipt")
              /\ Occurs("logError") =>
                    reported = [via |-> "logError", error |-> "stageError",
                                result |-> NoResult]
        /\ Occurs("runFailed") =>
              /\ ~Occurs("logReceipt")
              /\ Occurs("logError")
              /\ reported.via = "logError"
              /\ reported.error \in {"submitError", "receiptError"}
        /\ Occurs("logReceipt") =>
              /\ Occurs("receipt")
              /\ reported = [via |-> "logReceipt", error |-> NoError,
                             result |-> Receipt]
        /\ Occurs("logError") => (Occurs("stageFailed") \/ Occurs("runFailed"))

\* C2 witness: staging succeeded, runTx failed, and its error was reported.
C2_Witness ==
    /\ Occurs("confirmed")
    /\ Occurs("staged")
    /\ Occurs("runFailed")
    /\ reported.via = "logError"
    /\ reported.error = "submitError"
    /\ pc = "pickFunction"

\* C3: a contract function is invoked (queried or staged) only after every
\* input prompt of the selected function has resolved; a transaction is
\* staged or run only after the confirmation resolved to yes; after a declined
\* confirmation nothing was staged or run and the driver is at the Function
\* Selector.
C3_InvokedAfterPromptsAndConfirmation ==
    InUi =>
        /\ (pc \in {"query", "stage", "run"}) =>
              Len(raws) >= Len(abi[selected].inputs)
        /\ Precedes("confirmed", "stageTx")
        /\ Precedes("confirmed", "runTx")
        /\ Occurs("declined") =>
              /\ ~Occurs("stageTx")
              /\ ~Occurs("runTx")
              /\ pc = "pickFunction"

\* C4: without an escaping collaborator error the driver is the two-state
\* loop: a resolved contract leads to the Function Selector of that contract;
\* an executed function leads back to the Function Selector of the same
\* contract; BACK leads to the Contract Navigator with nothing invoked; no
\* pending call ever returns; and only an escaping collaborator error (a
\* failed resolution) terminates.
C4_Step ==
    InUi =>
        /\ pc' = "fatal" => fatalCause' = "resolution"
        /\ (pc' # "fatal") => Len(stack') >= Len(stack)
        /\ (pc = "resolve" /\ pc' # "fatal") =>
              /\ pc' = "pickFunction"
              /\ contractName' = contractName
              /\ abi' = AbiOf(contractName)
        /\ (pc \in Executing /\ pc' \notin Executing /\ pc' # "fatal") =>
              /\ pc' = "pickFunction"
              /\ contractName' = contractName
              /\ abi' = abi
        /\ (pc = "pickFunction" /\ pc' = "pickContract") => trace' = <<"back">>
        /\ (pc = "pickFunction") =>
              pc' \in {"pickFunction", "pickContract"} \cup Executing
        /\ (pc = "pickContract") => pc' \in {"pickContract", "resolve"}
C4_TwoStateLoop == [][C4_Step]_vars

\* C5: the candidate list of the Function Selector is BACK at position 0 if
\* and only if the query is empty, followed by exactly the named function
\* entries whose name contains the query (letter case ignored), in ascending
\* edit distance to the query, entries of equal distance in ABI order.
C5_CandidateList ==
    (InUi /\ pc = "pickFunction") =>
        LET list == searchAbi(abi, query)
            ms == abiMatches(abi, query)
            off == IF query = <<>> THEN 1 ELSE 0
            d(i) == levenshtein(abi[i].name, query)
        IN  /\ (query = <<>>) <=> (list # <<>> /\ list[1] = escItem)
            /\ Len(list) = Len(ms) + off
            /\ \A i \in DOMAIN ms : list[i + off] = reduceSignature(abi[ms[i]])
            /\ Range(ms) = {i \in DOMAIN abi :
                              /\ abi[i].name # <<>>
                              /\ abi[i].type = "function"
                              /\ ContainsIgnoringCase(abi[i].name, query)}
            /\ \A i, j \in DOMAIN ms : i # j => ms[i] # ms[j]
            /\ \A i \in 1..(Len(ms) - 1) :
                  /\ d(ms[i]) <= d(ms[i + 1])
                  /\ d(ms[i]) = d(ms[i + 1]) => ms[i] < ms[i + 1]

\* C5 witness: a non-empty query with three matches, where the sort moved an
\* entry ahead of an earlier ABI entry and left two entries of equal distance
\* in ABI order.
C5_Witness ==
    /\ pc = "pickFunction"
    /\ query # <<>>
    /\ LET ms == abiMatches(abi, query)
           d(i) == levenshtein(abi[i].name, query)
       IN  /\ Len(ms) = 3
           /\ \E i \in 1..2 : ms[i] > ms[i + 1]
           /\ \E i \in 1..2 : d(ms[i]) = d(ms[i + 1]) /\ ms[i] < ms[i + 1]

\* C6: the Contract Navigator presents exactly the known contract names (the
\* keys of the deployment targets) that contain the query, letter case ignored.
C6_ExactlyTheKnownMatches ==
    (InUi /\ pc = "pickContract") =>
        Range(searchTargets(targets, query)) =
            {k \in Range(keys) : ContainsIgnoringCase(k, query)}

\* C7: whenever 'Synthetix' matches the query (always, for the empty query),
\* the list the Contract Navigator presents has 'Synthetix' at position 0, on
\* every entry into pickContract.
C7_MainContractFirst ==
    (InUi /\ pc = "pickContract" /\ ContainsIgnoringCase(Synthetix, query)) =>
        /\ searchTargets(targets, query) # <<>>
        /\ searchTargets(targets, query)[1] = Synthetix
        /\ \A i \in 2..Len(searchTargets(targets, query)) :
              searchTargets(targets, query)[i] # Synthetix

\* C7 witness: pickContract re-entered after BACK, the deployment file lists
\* another contract before 'Synthetix', and a non-empty query matches both.
C7_Witness ==
    /\ pc = "pickContract"
    /\ Len(stack) >= 3
    /\ Len(keys) = 2
    /\ keys[2] = Synthetix
    /\ query # <<>>
    /\ Len(searchTargets(targets, query)) = 2

\* s contains sub as a substring.
Contains(s, sub) ==
    \E off \in 0..(Len(s) - Len(sub)) : \A j \in 1..Len(sub) : s[off + j] = sub[j]

\* The coercion C8 states: split on commas if the type ends in '[]', each
\* element (or the whole text) converted by toBytes32 if the type contains
\* 'bytes32'.
endsWithArrayMarker(type) ==
    Len(type) >= 2 /\ SubSeq(type, Len(type) - 1, Len(type)) = <<"[", "]">>
coercionAsStated(type, raw) ==
    LET parts == IF endsWithArrayMarker(type) THEN split(raw, ",") ELSE raw
    IN  IF Contains(type, tBytes32)
        THEN (IF endsWithArrayMarker(type)
              THEN [i \in 1..Len(parts) |-> toBytes32(parts[i])]
              ELSE toBytes32(parts))
        ELSE parts

\* C8: once the input prompts are done, CallArguments holds one entry per
\* declared input of the selected function, in order, each the coercion of
\* its raw text as stated above.
C8_CallArguments ==
    (InUi /\ pc \in {"query", "confirm", "stage", "run"}) =>
        /\ Len(inputs) = Len(abi[selected].inputs)
        /\ Len(raws) = Len(inputs)
        /\ \A i \in DOMAIN inputs :
              inputs[i] = coercionAsStated(abi[selected].inputs[i].type, raws[i])

\* C9: a successful view call on a function with n declared outputs prints
\* exactly n lines, the i-th pairing the name and type of output i with the
\* i-th returned value, for every n including 0, and the driver is at the
\* Function Selector again.
C9_Step ==
    (InUi /\ pc = "query" /\ reported'.via = "logReceipt") =>
        LET outs == abi[selected].outputs
            res == reported'.result
            returned(i) == IF res.kind = "value" THEN res.value ELSE res.values[i]
        IN  /\ pc' = "pickFunction"
            /\ Len(printed') = Len(outs)
            /\ \A i \in DOMAIN outs :
                  /\ printed'[i].name = outs[i].name
                  /\ printed'[i].type = outs[i].type
                  /\ printed'[i].value = printReturnedValue(returned(i))
C9_OneLinePerOutput == [][C9_Step]_vars

\* C10: every chain read of the status command is issued at the block given
\* with --block, and at 'latest' only when no block is given.
C10_EveryReadAtTheGivenBlock ==
    cmd = "status" =>
        \A i \in DOMAIN reads :
            reads[i].blockTag =
                IF opts.block = <<>>
                THEN Latest
                ELSE AtBlock(CHOOSE n \in 0..(MaxBlock + 10) : toText(n) = opts.block)

\* C11: in both commands, once the provider is set up: with no
\* --provider-url and PROVIDER_URL set, the URL used is PROVIDER_URL with
\* "network" replaced by the network of the run; a given --provider-url is
\* used unchanged.
C11_ProviderUrl ==
    pc = "ready" =>
        /\ (argv.providerUrl = <<>> /\ env # <<>>) =>
                providerUrl = replace(env, wNetwork, argv.network)
        /\ argv.providerUrl # <<>> => providerUrl = argv.providerUrl

\* C11 for the status command alone.
C11_StatusProviderUrl == cmd = "status" => C11_ProviderUrl

\* C12: once a function is picked, the ABI entry the driver works with (its
\* input prompts, its view-or-mutating dispatch, its output labels) is the
\* entry whose signature was selected from the candidate list.
C12_UsesTheSelectedEntry ==
    (InUi /\ selected # 0) => abiItem = selected

====
